---- MODULE Spec2Model ----
(***************************************************************************)
(* Model of the crocoddyl prototype:                                       *)
(*   - cddp/ddp_formulation.py : ConstrainedDDP (backward / forward pass)  *)
(*   - crocoddyl/state.py      : StateVector, StateNumDiff                 *)
(*                                                                         *)
(* Real numbers are exact rationals <<num, den>> with den > 0 in lowest    *)
(* terms.  The solver is instantiated on a scalar system (n = m = 1): the  *)
(* matrices of the source are 1x1, transposition is the identity and the   *)
(* Cholesky factorisation of Quu_r succeeds exactly when Quu_r > 0.        *)
(***************************************************************************)
EXTENDS Integers, Sequences, FiniteSets, TLC

(* ------------------------------------------------------------------ *)
(* Bounds of the model                                                 *)
(* ------------------------------------------------------------------ *)
\* number of running knots of the timeline (len(timeline) - 1)
MaxKnots == 2
\* number of compute() calls a behaviour may make
MaxIter == 2
\* largest magnitude of the integer inputs (x0, U[k])
MaxInput == 1
\* dimension and coordinate range of the StateVector arguments
MaxNx == 2
MaxCoord == 1

(* ------------------------------------------------------------------ *)
(* Exact rational arithmetic (numpy float arithmetic of the source)    *)
(* ------------------------------------------------------------------ *)
Abs(i) == IF i < 0 THEN -i ELSE i

RECURSIVE Gcd(_, _)
Gcd(a, b) == IF b = 0 THEN a ELSE Gcd(b, a % b)

Norm(n, d) ==
  LET s == IF d < 0 THEN -1 ELSE 1
      g == Gcd(Abs(n), Abs(d))
  IN  IF n = 0 THEN <<0, 1>> ELSE <<(s * n) \div g, (s * d) \div g>>

R(i) == <<i, 1>>
\* sums and products cancel common factors before multiplying, so that the
\* intermediate integers stay as small as the reduced result allows
RAdd(p, q) ==
  LET g == Gcd(p[2], q[2])
  IN  Norm(p[1] * (q[2] \div g) + q[1] * (p[2] \div g), (p[2] \div g) * q[2])
RNeg(p) == <<-p[1], p[2]>>
RSub(p, q) == RAdd(p, RNeg(q))
RMul(p, q) ==
  LET g1 == IF p[1] = 0 THEN 1 ELSE Gcd(Abs(p[1]), q[2])
      g2 == IF q[1] = 0 THEN 1 ELSE Gcd(Abs(q[1]), p[2])
  IN  Norm((p[1] \div g1) * (q[1] \div g2), (p[2] \div g2) * (q[2] \div g1))
RDiv(p, q) == RMul(p, IF q[1] < 0 THEN <<-q[2], -q[1]>> ELSE <<q[2], q[1]>>)
RPos(p) == p[1] > 0
RLt(p, q) == RPos(RSub(q, p))
RZero == <<0, 1>>
ROne == <<1, 1>>
RHalf == <<1, 2>>

(* ------------------------------------------------------------------ *)
(* State                                                               *)
(* ------------------------------------------------------------------ *)
VARIABLES
  dynamics,      \* the dynamics object: f(x,u) = a*x + b*u
  cost_manager,  \* the cost object: l = q*x^2 + r*u^2, l_T = qf*x^2
  timeline,      \* sequence of knot times, length N+1
  intervals,     \* per-knot DDP data, index 0..N (N is the terminal one)
  terminal_x,    \* the array terminal_interval.x is bound to
  V, V_new, dV_exp, mu,
  pc,            \* position of the caller / of compute()
  k,             \* loop index of the running pass
  alpha,         \* step length handed to both passes by compute()
  outcome,       \* branch taken by the last acceptance test
  iter,          \* number of compute() calls started
  before,        \* the nominal trajectory at the entry of forwardPass
  args, result,  \* arguments and result of the last state-manifold call
  model,         \* a differential action model
  data,          \* the data object created by model.createData()
  call           \* the last calc / calcDiff call made on (model, data)

vars == <<dynamics, cost_manager, timeline, intervals, terminal_x, V, V_new,
          dV_exp, mu, pc, k, alpha, outcome, iter, before, args, result,
          model, data, call>>

ddpVars == <<dynamics, cost_manager, timeline, intervals, terminal_x, V,
             V_new, dV_exp, mu, pc, k, alpha, outcome, iter, before>>

stateVars == <<args, result>>

damVars == <<model, data, call>>

\* self.N = len(timeline) - 1
N == Len(timeline) - 1

\* it.tf - it.t0 of running interval i (timeline is a 1-based sequence)
Dt(i) == R(timeline[i + 2] - timeline[i + 1])

\* acceptance bounds and regularisation set by the constructor
change_lb == R(0)
change_ub == R(100)

(* ------------------------------------------------------------------ *)
(* Collaborators of the solver: dynamics, integrator, cost manager    *)
(* ------------------------------------------------------------------ *)
\* dynamics.f : continuous-time vector field
DynF(x, u) == RAdd(RMul(dynamics.a, x), RMul(dynamics.b, u))
\* dynamics.computeAllTerms : the Jacobians fx, fu of f
DynFx(x, u) == dynamics.a
DynFu(x, u) == dynamics.b

\* integrator.integrate : explicit Euler step
Integrate(x, u, dt) == RAdd(x, RMul(dt, DynF(x, u)))

\* cost_manager.computeRunningCost / computeTerminalCost
computeRunningCost(x, u) ==
  RAdd(RMul(cost_manager.q, RMul(x, x)), RMul(cost_manager.r, RMul(u, u)))
computeTerminalCost(x) == RMul(cost_manager.qf, RMul(x, x))

\* cost_manager.computeRunningTerms : l, lx, lu, lxx, luu, lux
computeRunningTerms(x, u) ==
  [l   |-> computeRunningCost(x, u),
   lx  |-> RMul(R(2), RMul(cost_manager.q, x)),
   lu  |-> RMul(R(2), RMul(cost_manager.r, u)),
   lxx |-> RMul(R(2), cost_manager.q),
   luu |-> RMul(R(2), cost_manager.r),
   lux |-> RZero]

\* cost_manager.computeTerminalTerms : V, Vx, Vxx
computeTerminalTerms(x) ==
  [V   |-> computeTerminalCost(x),
   Vx  |-> RMul(R(2), RMul(cost_manager.qf, x)),
   Vxx |-> RMul(R(2), cost_manager.qf)]

\* RunningDDPData / TerminalDDPData : zero-initialised buffers
DDPData ==
  [x |-> RZero, u |-> RZero, x_new |-> RZero, u_new |-> RZero,
   Qx |-> RZero, Qu |-> RZero, Qxx |-> RZero, Quu |-> RZero, Qux |-> RZero,
   Quu_r |-> RZero, Qux_r |-> RZero, K |-> RZero, j |-> RZero,
   V |-> RZero, Vx |-> RZero, Vxx |-> RZero]

\* value of terminal_interval.x : the attribute is rebound (not copied) by
\* init() and by forwardPass(), so it names another interval's array
TerminalX ==
  CASE terminal_x = "own"   -> intervals[N].x
    [] terminal_x = "x"     -> intervals[N - 1].x
    [] terminal_x = "x_new" -> intervals[N - 1].x_new

\* the nominal trajectory: x, u of the running knots, x of the terminal
Nominal ==
  [x  |-> [i \in 0 .. (N - 1) |-> intervals[i].x],
   u  |-> [i \in 0 .. (N - 1) |-> intervals[i].u],
   xT |-> TerminalX]

(* ------------------------------------------------------------------ *)
(* Inputs                                                              *)
(* ------------------------------------------------------------------ *)
\* initial states and initial controls; the problems below are symmetric
\* under (x, u) -> (-x, -u), so one sign of the controls is enough
Inputs == (-MaxInput) .. MaxInput
Controls == 0 .. MaxInput
\* regularisations tried (self.mu is a plain attribute of the solver)
MuSet == {R(0), R(1)}
\* dynamics and cost objects handed to the constructor.  The first family
\* has no control cost (Quu is singular when the value function is flat),
\* the second is positive-definite linear-quadratic.
Problems ==
  ([a : {R(0)}, b : {R(1)}]
     \X [q : {RHalf}, r : {R(0)}, qf : {R(0), RHalf, R(1)}])
  \cup
  ([a : {R(-1)}, b : {R(1)}]
     \X [q : {<<1, 4>>, RHalf}, r : {RHalf}, qf : {RHalf, R(1)}])
TimelineSet == {[i \in 1 .. (n + 1) |-> i - 1] : n \in 2 .. MaxKnots}
\* control sequences handed to setInitialControl: one too short, complete,
\* one too long
ControlSequences ==
  UNION {[1 .. n -> Controls] : n \in (N - 1) .. (N + 1)}

(* ------------------------------------------------------------------ *)
(* ConstrainedDDP: construction and initialisation                     *)
(* ------------------------------------------------------------------ *)
\* ConstrainedDDP.__init__
DDPInit ==
  /\ \E p \in Problems : dynamics = p[1] /\ cost_manager = p[2]
  /\ timeline \in TimelineSet
  /\ intervals = [i \in 0 .. (Len(timeline) - 1) |-> DDPData]
  /\ terminal_x = "own"
  /\ V = RZero
  /\ V_new = RZero
  /\ dV_exp = RZero
  /\ mu \in MuSet
  /\ pc = "constructed"
  /\ k = 0
  /\ alpha = ROne
  /\ outcome = "none"
  /\ iter = 0
  /\ before = <<>>

\* ConstrainedDDP.setInitalState
setInitalState(x0) ==
  /\ pc = "constructed"
  /\ intervals' = [intervals EXCEPT ![0].x = R(x0)]
  /\ pc' = "state_set"
  /\ UNCHANGED <<dynamics, cost_manager, timeline, terminal_x, V, V_new,
                 dV_exp, mu, k, alpha, outcome, iter, before>>

\* the knots 0..n-1 with u and u_new set from U
WithControls(its, U, n) ==
  [i \in 0 .. N |->
     IF i < n
     THEN [its[i] EXCEPT !.u = R(U[i + 1]), !.u_new = R(U[i + 1])]
     ELSE its[i]]

\* the length checked only after the knots were written
setInitialControl_checkedLate(U) ==
  /\ pc = "state_set"
  /\ intervals' = WithControls(intervals, U, IF Len(U) < N THEN Len(U) ELSE N)
  /\ pc' = IF Len(U) # N THEN "AssertionError" ELSE "control_set"
  /\ UNCHANGED <<dynamics, cost_manager, timeline, terminal_x, V, V_new,
                 dV_exp, mu, k, alpha, outcome, iter, before>>

\* ConstrainedDDP.setInitialControl : the assertion on len(U) fails before
\* any knot is written
setInitialControl(U) ==
  /\ pc = "state_set"
  /\ IF Len(U) # N
     THEN /\ pc' = "AssertionError"
          /\ intervals' = intervals
     ELSE /\ pc' = "control_set"
          /\ intervals' = WithControls(intervals, U, N)
  /\ UNCHANGED <<dynamics, cost_manager, timeline, terminal_x, V, V_new,
                 dV_exp, mu, k, alpha, outcome, iter, before>>

\* the states x[0..i] obtained by integrating u[0..i-1] from x[0]
RECURSIVE Rollout(_, _)
Rollout(its, i) ==
  IF i = 0 THEN its[0].x
  ELSE Integrate(Rollout(its, i - 1), its[i - 1].u, Dt(i - 1))

\* running cost accumulated by init() over the knots 0..i-1
RECURSIVE InitCost(_, _)
InitCost(its, i) ==
  IF i = 0 THEN RZero
  ELSE RAdd(InitCost(its, i - 1),
            RMul(computeRunningCost(Rollout(its, i - 1), its[i - 1].u),
                 Dt(i - 1)))

\* ConstrainedDDP.init
init ==
  /\ pc = "control_set"
  /\ LET rolled == [i \in 0 .. N |->
                      [intervals[i] EXCEPT !.x = Rollout(intervals, i),
                                           !.x_new = Rollout(intervals, i)]]
     IN  /\ intervals' = rolled
         \* it.x = self.intervals[self.N-1].x binds the terminal x to the
         \* array of the last running interval
         /\ terminal_x' = "x"
         /\ V' = RAdd(InitCost(intervals, N),
                      computeTerminalCost(rolled[N - 1].x))
  /\ pc' = "ready"
  /\ UNCHANGED <<dynamics, cost_manager, timeline, V_new, dV_exp, mu, k,
                 alpha, outcome, iter, before>>

(* ------------------------------------------------------------------ *)
(* ConstrainedDDP.compute : backward pass                              *)
(* ------------------------------------------------------------------ *)
\* it.V, it.Vx, it.Vxx and self.V from the terminal terms t
SetTerminalValue(t) ==
  /\ intervals' = [intervals EXCEPT ![N].V = t.V, ![N].Vx = t.Vx,
                                    ![N].Vxx = t.Vxx]
  /\ V' = t.V

\* compute() up to the first knot of backwardPass: the terminal value
\* function, V and dV_exp
BackwardStart ==
  /\ pc = "ready"
  /\ iter < MaxIter
  /\ SetTerminalValue(computeTerminalTerms(TerminalX))
  /\ dV_exp' = RZero
  /\ alpha' = ROne
  /\ k' = N - 1
  /\ iter' = iter + 1
  /\ pc' = "backward"
  /\ UNCHANGED <<dynamics, cost_manager, timeline, terminal_x, V_new, mu,
                 outcome, before>>

\* the discretised Jacobians: fx*dt + I and fu*dt
DiscreteFx(x, u, dt) == RAdd(RMul(DynFx(x, u), dt), ROne)
DiscreteFu(x, u, dt) == RMul(DynFu(x, u), dt)

\* the Q-terms from the cost terms c (integrated over dt), the discretised
\* Jacobians fx, fu and the value function Vx_p, Vxx_p of the next interval
QDerivatives(c, dt, fx, fu, Vx_p, Vxx_p) ==
  [l   |-> RMul(c.l, dt),
   Qx  |-> RAdd(RMul(c.lx, dt), RMul(fx, Vx_p)),
   Qu  |-> RAdd(RMul(c.lu, dt), RMul(fu, Vx_p)),
   Qxx |-> RAdd(RMul(c.lxx, dt), RMul(fx, RMul(Vxx_p, fx))),
   Quu |-> RAdd(RMul(c.luu, dt), RMul(fu, RMul(Vxx_p, fu))),
   Qux |-> RAdd(RMul(c.lux, dt), RMul(fu, RMul(Vxx_p, fx)))]

\* the regularised Quu_r, Qux_r added to the Q-terms q (muI = m * I)
Regularized(q, fx, fu, m) ==
  [l |-> q.l, Qx |-> q.Qx, Qu |-> q.Qu, Qxx |-> q.Qxx, Quu |-> q.Quu,
   Qux |-> q.Qux,
   Quu_r |-> RAdd(q.Quu, RMul(fu, RMul(m, fu))),
   Qux_r |-> RAdd(q.Qux, RMul(fu, RMul(m, fx)))]

\* the Q-terms taken from the interval's own value function
QTerms_ownValue(i) ==
  Regularized(
    QDerivatives(computeRunningTerms(intervals[i].x, intervals[i].u), Dt(i),
                 DiscreteFx(intervals[i].x, intervals[i].u, Dt(i)),
                 DiscreteFu(intervals[i].x, intervals[i].u, Dt(i)),
                 intervals[i].Vx, intervals[i].Vxx),
    DiscreteFx(intervals[i].x, intervals[i].u, Dt(i)),
    DiscreteFu(intervals[i].x, intervals[i].u, Dt(i)),
    mu)

\* the Q-terms of running interval i, from the value function of i+1
QTerms(i) ==
  Regularized(
    QDerivatives(computeRunningTerms(intervals[i].x, intervals[i].u), Dt(i),
                 DiscreteFx(intervals[i].x, intervals[i].u, Dt(i)),
                 DiscreteFu(intervals[i].x, intervals[i].u, Dt(i)),
                 intervals[i + 1].Vx, intervals[i + 1].Vxx),
    DiscreteFx(intervals[i].x, intervals[i].u, Dt(i)),
    DiscreteFu(intervals[i].x, intervals[i].u, Dt(i)),
    mu)

\* np.linalg.cholesky succeeds on a 1x1 matrix iff its entry is positive
CholeskyOk(m) == RPos(m)

\* feedback and feedforward terms from the inverse of Quu_r
GainsFrom(Quu_inv, q) ==
  [K |-> RNeg(RMul(Quu_inv, q.Qux_r)), j |-> RNeg(RMul(Quu_inv, q.Qu))]
Gains(q) == GainsFrom(RDiv(ROne, q.Quu_r), q)

\* the value update taken from the regularised terms
ValueTerms_regularized(q, g, a) ==
  [Vx  |-> RAdd(RAdd(q.Qx, RMul(g.K, RMul(q.Quu_r, g.j))),
                RAdd(RMul(g.K, q.Qu), RMul(q.Qux_r, g.j))),
   Vxx |-> RAdd(RAdd(q.Qxx, RMul(g.K, RMul(q.Quu_r, g.K))),
                RAdd(RMul(g.K, q.Qux_r), RMul(q.Qux_r, g.K))),
   dV  |-> RMul(a, RAdd(RMul(a, RMul(RHalf, RMul(g.j, RMul(q.Quu, g.j)))),
                        RMul(g.j, q.Qu)))]

\* value function derivatives and expected reduction of an interval with
\* Q-terms q and gains g, for the step length a
ValueTerms(q, g, a) ==
  [Vx  |-> RAdd(RAdd(q.Qx, RMul(g.K, RMul(q.Quu, g.j))),
                RAdd(RMul(g.K, q.Qu), RMul(q.Qux, g.j))),
   Vxx |-> RAdd(RAdd(q.Qxx, RMul(g.K, RMul(q.Quu, g.K))),
                RAdd(RMul(g.K, q.Qux), RMul(q.Qux, g.K))),
   dV  |-> RMul(a, RAdd(RMul(a, RMul(RHalf, RMul(g.j, RMul(q.Quu, g.j)))),
                        RMul(g.j, q.Qu)))]

\* the interval with its Q-terms written
WithQTerms(it, q) ==
  [it EXCEPT !.Qx = q.Qx, !.Qu = q.Qu, !.Qxx = q.Qxx, !.Quu = q.Quu,
             !.Qux = q.Qux, !.Quu_r = q.Quu_r, !.Qux_r = q.Qux_r]

\* LinAlgError leaves backwardPass and compute after the Q-terms were
\* written
KnotRaises(q) ==
  /\ intervals' = [intervals EXCEPT ![k] = WithQTerms(intervals[k], q)]
  /\ pc' = "raised"
  /\ UNCHANGED <<V, dV_exp, k>>

\* the rest of the loop body once the factorisation succeeded
KnotCompletes(q, g, v) ==
  /\ intervals' =
       [intervals EXCEPT
          ![k] = [WithQTerms(intervals[k], q) EXCEPT
                    !.K = g.K, !.j = g.j, !.Vx = v.Vx, !.Vxx = v.Vxx]]
  /\ V' = RAdd(V, q.l)
  /\ dV_exp' = RAdd(dV_exp, v.dV)
  /\ IF k = 0
     THEN pc' = "backward_done" /\ k' = k
     ELSE pc' = pc /\ k' = k - 1

KnotFactorised(q, g) == KnotCompletes(q, g, ValueTerms(q, g, alpha))

KnotBody(q) ==
  IF ~CholeskyOk(q.Quu_r) THEN KnotRaises(q)
  ELSE KnotFactorised(q, Gains(q))

\* one iteration of the backward sweep (interval k)
BackwardKnot ==
  /\ pc = "backward"
  /\ KnotBody(QTerms(k))
  /\ UNCHANGED <<dynamics, cost_manager, timeline, terminal_x, V_new, mu,
                 alpha, outcome, iter, before>>

(* ------------------------------------------------------------------ *)
(* ConstrainedDDP.compute : forward pass                               *)
(* ------------------------------------------------------------------ *)
\* forwardPass up to the rollout loop
ForwardStart ==
  /\ pc = "backward_done"
  /\ intervals' = [intervals EXCEPT ![0].x_new = intervals[0].x]
  /\ V_new' = RZero
  /\ k' = 0
  /\ pc' = "forward"
  /\ before' = Nominal
  /\ UNCHANGED <<dynamics, cost_manager, timeline, terminal_x, V, dV_exp,
                 mu, alpha, outcome, iter>>

\* the new control command with the state difference taken the other way
NewControl_diffReversed(it, a) ==
  RAdd(RAdd(it.u, RMul(a, it.j)), RMul(it.K, RSub(it.x, it.x_new)))

\* the new control command of an interval
NewControl(it, a) ==
  RAdd(RAdd(it.u, RMul(a, it.j)), RMul(it.K, RSub(it.x_new, it.x)))

\* the loop body once the new control u_new is known
KnotRollout(it, u_new, dt) ==
  /\ intervals' =
       [intervals EXCEPT
          ![k].u_new = u_new,
          ![k + 1].x_new = Integrate(it.x_new, u_new, dt)]
  /\ V_new' = RAdd(V_new, RMul(computeRunningCost(it.x_new, u_new), dt))

\* one iteration of the rollout loop (interval k)
ForwardKnot ==
  /\ pc = "forward"
  /\ KnotRollout(intervals[k], NewControl(intervals[k], alpha), Dt(k))
  /\ IF k = N - 1
     THEN pc' = "forward_done" /\ k' = k
     ELSE pc' = pc /\ k' = k + 1
  /\ UNCHANGED <<dynamics, cost_manager, timeline, terminal_x, V, dV_exp,
                 mu, alpha, outcome, iter, before>>

\* the ratio with the numerator reversed
ZRatioReversed(vnew, v, dv) == RDiv(RSub(v, vnew), dv)

\* z = (self.V_new - self.V) / self.dV_exp
ZRatio(vnew, v, dv) == RDiv(RSub(vnew, v), dv)

\* the acceptance test without its lower bound
AcceptsBelowUb(vnew, v, dv) ==
  /\ dv # RZero
  /\ RLt(ZRatio(vnew, v, dv), change_ub)

\* z > self.change_lb and z < self.change_ub ; a zero dV_exp makes z
\* nan or +-inf, for which the test is false
Accepts(vnew, v, dv) ==
  /\ dv # RZero
  /\ RLt(change_lb, ZRatio(vnew, v, dv))
  /\ RLt(ZRatio(vnew, v, dv), change_ub)

\* the intervals committed on acceptance: range(self.N-1)
CommitRange == 0 .. (N - 2)

\* the acceptance test on the trial cost vnew and its two branches
CheckChanges(vnew) ==
  /\ V_new' = vnew
  /\ IF Accepts(vnew, V, dV_exp)
     THEN /\ intervals' =
               [i \in 0 .. N |->
                  IF i \in CommitRange
                  THEN [intervals[i] EXCEPT !.u = intervals[i].u_new,
                                            !.x = intervals[i].x_new]
                  ELSE intervals[i]]
          /\ outcome' = "accepted"
     ELSE /\ intervals' = intervals
          /\ outcome' = "rejected"

\* forwardPass after the rollout loop: terminal cost, acceptance test
ForwardEnd ==
  /\ pc = "forward_done"
  \* it.x = self.intervals[self.N-1].x_new rebinds the terminal x
  /\ terminal_x' = "x_new"
  /\ CheckChanges(RAdd(V_new, computeTerminalCost(intervals[N - 1].x_new)))
  /\ pc' = "ready"
  /\ UNCHANGED <<dynamics, cost_manager, timeline, V, dV_exp, mu, k, alpha,
                 iter, before>>

(* ------------------------------------------------------------------ *)
(* Specification of the solver                                         *)
(* ------------------------------------------------------------------ *)
\* no differential action model is involved
NoDAM == model = <<>> /\ data = <<>> /\ call = <<>>

Init ==
  /\ DDPInit
  /\ args = <<>>
  /\ result = <<>>
  /\ NoDAM

Next ==
  \/ (\E x0 \in Inputs : setInitalState(x0)) /\ UNCHANGED <<stateVars, damVars>>
  \/ (\E U \in ControlSequences : setInitialControl(U))
       /\ UNCHANGED <<stateVars, damVars>>
  \/ init /\ UNCHANGED <<stateVars, damVars>>
  \/ BackwardStart /\ UNCHANGED <<stateVars, damVars>>
  \/ BackwardKnot /\ UNCHANGED <<stateVars, damVars>>
  \/ ForwardStart /\ UNCHANGED <<stateVars, damVars>>
  \/ ForwardKnot /\ UNCHANGED <<stateVars, damVars>>
  \/ ForwardEnd /\ UNCHANGED <<stateVars, damVars>>

Spec == Init /\ [][Next]_vars

(* ------------------------------------------------------------------ *)
(* crocoddyl/state.py : StateVector and StateNumDiff                   *)
(* ------------------------------------------------------------------ *)
\* vectors are sequences of rationals, matrices sequences of rows
VSub(v, w) == [i \in 1 .. Len(v) |-> RSub(v[i], w[i])]
VAdd(v, w) == [i \in 1 .. Len(v) |-> RAdd(v[i], w[i])]
Zeros(n) == [i \in 1 .. n |-> [c \in 1 .. n |-> RZero]]
Eye(n) == [i \in 1 .. n |-> [c \in 1 .. n |-> IF i = c THEN ROne ELSE RZero]]
MNeg(m) == [i \in 1 .. Len(m) |-> [c \in 1 .. Len(m[i]) |-> RNeg(m[i][c])]]

\* the difference taken the other way round
StateVector_diff_swapped(x1, x2) == VSub(x1, x2)

\* StateVector.diff : x2 - x1
StateVector_diff(x1, x2) == VSub(x2, x1)

\* StateVector.integrate : x1 + dx
StateVector_integrate(x1, dx) == VAdd(x1, dx)

Selectors == {"first", "second", "both"}

\* Jdiff with +I for both arguments
StateVector_Jdiff_unsigned(ndx, x1, x2, firstsecond) ==
  IF firstsecond \notin Selectors THEN "AssertionError"
  ELSE IF firstsecond = "both" THEN <<Eye(ndx), Eye(ndx)>>
  ELSE Eye(ndx)

\* StateVector.Jdiff
StateVector_Jdiff(ndx, x1, x2, firstsecond) ==
  LET J(w) == IF w = "first" THEN MNeg(Eye(ndx))
              ELSE IF w = "second" THEN Eye(ndx)
              ELSE Zeros(ndx)
  IN  IF firstsecond \notin Selectors THEN "AssertionError"
      ELSE IF firstsecond = "both" THEN <<J("first"), J("second")>>
      ELSE J(firstsecond)

\* StateVector.Jintegrate
StateVector_Jintegrate(ndx, x, vx, firstsecond) ==
  IF firstsecond \notin Selectors THEN "AssertionError"
  ELSE IF firstsecond = "both" THEN <<Eye(ndx), Eye(ndx)>>
  ELSE Eye(ndx)

\* StateNumDiff.diff / StateNumDiff.integrate forward to the wrapped state
StateNumDiff_diff(x1, x2) == StateVector_diff(x1, x2)
StateNumDiff_integrate(x, dx) == StateVector_integrate(x, dx)

\* self.disturbance of StateNumDiff
StateNumDiff_disturbance == <<1, 10 ^ 6>>

\* dx with dx[c] = h and zero elsewhere
Perturbation(n, c, h) == [i \in 1 .. n |-> IF i = c THEN h ELSE RZero]
\* J /= h
MScale(m, h) == [i \in 1 .. Len(m) |-> [c \in 1 .. Len(m[i]) |-> RDiv(m[i][c], h)]]

\* the finite differences left undivided by the disturbance
StateNumDiff_Jdiff_unscaled(ndx, x1, x2, firstsecond) ==
  LET h == StateNumDiff_disturbance
      d0 == StateNumDiff_diff(x1, x2)
      Col(w, c) ==
        IF w = "first"
        THEN VSub(StateNumDiff_diff(
                    StateNumDiff_integrate(x1, Perturbation(ndx, c, h)), x2),
                  d0)
        ELSE VSub(StateNumDiff_diff(
                    x1, StateNumDiff_integrate(x2, Perturbation(ndx, c, h))),
                  d0)
      J(w) == [i \in 1 .. ndx |-> [c \in 1 .. ndx |-> Col(w, c)[i]]]
  IN  IF firstsecond \notin Selectors THEN "AssertionError"
      ELSE IF firstsecond = "both" THEN <<J("first"), J("second")>>
      ELSE J(firstsecond)

\* StateNumDiff.Jdiff : column c is (diff at the perturbed argument - d0)/h
StateNumDiff_Jdiff(ndx, x1, x2, firstsecond) ==
  LET h == StateNumDiff_disturbance
      d0 == StateNumDiff_diff(x1, x2)
      Col(w, c) ==
        IF w = "first"
        THEN VSub(StateNumDiff_diff(
                    StateNumDiff_integrate(x1, Perturbation(ndx, c, h)), x2),
                  d0)
        ELSE VSub(StateNumDiff_diff(
                    x1, StateNumDiff_integrate(x2, Perturbation(ndx, c, h))),
                  d0)
      J(w) == MScale([i \in 1 .. ndx |-> [c \in 1 .. ndx |-> Col(w, c)[i]]],
                     h)
  IN  IF firstsecond \notin Selectors THEN "AssertionError"
      ELSE IF firstsecond = "both" THEN <<J("first"), J("second")>>
      ELSE J(firstsecond)

\* StateNumDiff.Jintegrate : column c is diff(d0, integrate at the
\* perturbed argument)/h
StateNumDiff_Jintegrate(ndx, x, vx, firstsecond) ==
  LET h == StateNumDiff_disturbance
      d0 == StateNumDiff_integrate(x, vx)
      Col(w, c) ==
        IF w = "first"
        THEN StateNumDiff_diff(
               d0,
               StateNumDiff_integrate(
                 StateNumDiff_integrate(x, Perturbation(ndx, c, h)), vx))
        ELSE StateNumDiff_diff(
               d0,
               StateNumDiff_integrate(x, VAdd(vx, Perturbation(ndx, c, h))))
      J(w) == MScale([i \in 1 .. ndx |-> [c \in 1 .. ndx |-> Col(w, c)[i]]],
                     h)
  IN  IF firstsecond \notin Selectors THEN "AssertionError"
      ELSE IF firstsecond = "both" THEN <<J("first"), J("second")>>
      ELSE J(firstsecond)

\* the state classes and the calls a caller makes on them
StateClasses == {"StateVector", "StateNumDiff"}
Diff(cls, x1, x2) ==
  IF cls = "StateVector" THEN StateVector_diff(x1, x2)
  ELSE StateNumDiff_diff(x1, x2)
Integrate_(cls, x, dx) ==
  IF cls = "StateVector" THEN StateVector_integrate(x, dx)
  ELSE StateNumDiff_integrate(x, dx)

Coords == {R(i) : i \in (-MaxCoord) .. MaxCoord}
Vectors(n) == [1 .. n -> Coords]

\* a state object of dimension nx and the arguments of the next call
StateInit ==
  /\ \E n \in 1 .. MaxNx :
       \E x \in Vectors(n), y \in Vectors(n) :
         \E cls \in StateClasses, w \in Selectors \cup {"third"} :
           args = [cls |-> cls, nx |-> n, x |-> x, y |-> y, w |-> w]
  /\ result = <<>>

\* diff(x, y)
CallDiff ==
  /\ result = <<>>
  /\ result' = [op |-> "diff", val |-> Diff(args.cls, args.x, args.y)]
  /\ UNCHANGED args

\* integrate(x, y)
CallIntegrate ==
  /\ result = <<>>
  /\ result' = [op |-> "integrate",
                val |-> Integrate_(args.cls, args.x, args.y)]
  /\ UNCHANGED args

\* diff(x, integrate(x, y))
CallDiffOfIntegrate ==
  /\ result = <<>>
  /\ result' = [op |-> "diff_integrate",
                val |-> Diff(args.cls, args.x,
                             Integrate_(args.cls, args.x, args.y))]
  /\ UNCHANGED args

\* integrate(x, diff(x, y))
CallIntegrateOfDiff ==
  /\ result = <<>>
  /\ result' = [op |-> "integrate_diff",
                val |-> Integrate_(args.cls, args.x,
                                   Diff(args.cls, args.x, args.y))]
  /\ UNCHANGED args

\* StateVector.Jdiff(x, y, w)
CallJdiff ==
  /\ result = <<>>
  /\ args.cls = "StateVector"
  /\ result' = [op |-> "Jdiff",
                val |-> StateVector_Jdiff(args.nx, args.x, args.y, args.w)]
  /\ UNCHANGED args

\* StateVector.Jintegrate(x, y, w)
CallJintegrate ==
  /\ result = <<>>
  /\ args.cls = "StateVector"
  /\ result' = [op |-> "Jintegrate",
                val |-> StateVector_Jintegrate(args.nx, args.x, args.y,
                                               args.w)]
  /\ UNCHANGED args

\* StateNumDiff.Jdiff(x, y, w)
CallNumDiffJdiff ==
  /\ result = <<>>
  /\ args.cls = "StateNumDiff"
  /\ result' = [op |-> "NumDiff.Jdiff",
                val |-> StateNumDiff_Jdiff(args.nx, args.x, args.y, args.w)]
  /\ UNCHANGED args

\* StateNumDiff.Jintegrate(x, y, w)
CallNumDiffJintegrate ==
  /\ result = <<>>
  /\ args.cls = "StateNumDiff"
  /\ result' = [op |-> "NumDiff.Jintegrate",
                val |-> StateNumDiff_Jintegrate(args.nx, args.x, args.y,
                                                args.w)]
  /\ UNCHANGED args

\* the solver is not involved in the state-manifold calls
NoSolver ==
  /\ dynamics = <<>> /\ cost_manager = <<>> /\ timeline = <<>>
  /\ intervals = <<>> /\ terminal_x = "own" /\ V = RZero /\ V_new = RZero
  /\ dV_exp = RZero /\ mu = RZero /\ pc = "state" /\ k = 0 /\ alpha = ROne
  /\ outcome = "none" /\ iter = 0 /\ before = <<>>

InitState == StateInit /\ NoSolver /\ NoDAM

NextState ==
  \/ CallDiff /\ UNCHANGED <<ddpVars, damVars>>
  \/ CallIntegrate /\ UNCHANGED <<ddpVars, damVars>>
  \/ CallDiffOfIntegrate /\ UNCHANGED <<ddpVars, damVars>>
  \/ CallIntegrateOfDiff /\ UNCHANGED <<ddpVars, damVars>>
  \/ CallJdiff /\ UNCHANGED <<ddpVars, damVars>>
  \/ CallJintegrate /\ UNCHANGED <<ddpVars, damVars>>
  \/ CallNumDiffJdiff /\ UNCHANGED <<ddpVars, damVars>>
  \/ CallNumDiffJintegrate /\ UNCHANGED <<ddpVars, damVars>>

SpecState == InitState /\ [][NextState]_vars

(* ------------------------------------------------------------------ *)
(* crocoddyl/differential_action.py : arithmetic                       *)
(* ------------------------------------------------------------------ *)
\* The finite-difference shim squares arguments perturbed by its
\* disturbance h = 1e-5.  The numbers of this section are therefore kept
\* exact as polynomials in h: <<c1, c2, c3, c4>> stands for
\* c1/h + c2 + c3*h + c4*h^2 with rational coefficients.
HZero == <<RZero, RZero, RZero, RZero>>
H(r) == <<RZero, r, RZero, RZero>>
\* sums and products of coefficients (most of them are zero)
CAdd(a, b) == IF a[1] = 0 THEN b ELSE IF b[1] = 0 THEN a ELSE RAdd(a, b)
CMul(a, b) == IF a[1] = 0 \/ b[1] = 0 THEN RZero ELSE RMul(a, b)
HAdd(p, q) ==
  <<CAdd(p[1], q[1]), CAdd(p[2], q[2]), CAdd(p[3], q[3]), CAdd(p[4], q[4])>>
HSub(p, q) ==
  <<CAdd(p[1], RNeg(q[1])), CAdd(p[2], RNeg(q[2])), CAdd(p[3], RNeg(q[3])),
    CAdd(p[4], RNeg(q[4]))>>
\* the product: the coefficient of index i collects the pairs i1 + i2 = i + 2.
\* A product whose powers of h leave the range kept (1/h^2, h^3, h^4) is
\* not a number of this section.
HMul(p, q) ==
  IF CMul(p[1], q[1]) = RZero /\ CMul(p[4], q[4]) = RZero
       /\ CAdd(CMul(p[3], q[4]), CMul(p[4], q[3])) = RZero
  THEN <<CAdd(CMul(p[1], q[2]), CMul(p[2], q[1])),
         CAdd(CAdd(CMul(p[1], q[3]), CMul(p[2], q[2])), CMul(p[3], q[1])),
         CAdd(CAdd(CMul(p[1], q[4]), CMul(p[2], q[3])),
              CAdd(CMul(p[3], q[2]), CMul(p[4], q[1]))),
         CAdd(CAdd(CMul(p[2], q[4]), CMul(p[3], q[3])), CMul(p[4], q[2]))>>
  ELSE "out of range"
\* self.disturbance of DifferentialActionModelNumDiff, and the division by it
DifferentialActionModelNumDiff_disturbance == <<RZero, RZero, ROne, RZero>>
HDivDisturbance(p) ==
  IF p[1] = RZero THEN <<p[2], p[3], p[4], RZero>> ELSE "out of range"

\* vectors and matrices of such numbers
HVec(v) == [i \in 1 .. Len(v) |-> H(v[i])]
HMat(m) == [i \in 1 .. Len(m) |-> HVec(m[i])]
HZeros(n) == [i \in 1 .. n |-> HZero]
HZeroMat(r, c) == [i \in 1 .. r |-> HZeros(c)]
RECURSIVE HSum(_, _)
HSum(f, n) == IF n = 0 THEN HZero ELSE HAdd(HSum(f, n - 1), f[n])
\* np.dot of two vectors, of a row vector and a matrix
HDot(v, w) == HSum([i \in 1 .. Len(v) |-> HMul(v[i], w[i])], Len(v))
HVecMat(v, m) ==
  [c \in 1 .. Len(m[1]) |-> HDot(v, [i \in 1 .. Len(m) |-> m[i][c]])]
HMatVec(m, v) == [i \in 1 .. Len(m) |-> HDot(m[i], v)]
\* m + m.T
HPlusTranspose(m) ==
  [i \in 1 .. Len(m) |-> [c \in 1 .. Len(m) |-> HAdd(m[i][c], m[c][i])]]

(* ------------------------------------------------------------------ *)
(* DifferentialActionModelLQR (nq = nv = nu = 1, x = [q, v])           *)
(* ------------------------------------------------------------------ *)
\* DifferentialActionModelLQR.__init__ : A, B, C, Q, U are orthonormal
\* matrices (1x1: +1 or -1), d a vector of [0, 1)
LQRModels ==
  [kind : {"LQR"}, nq : {1}, nv : {1}, nu : {1}, ndx : {2}, nout : {1},
   A : {R(1), R(-1)}, B : {R(1)}, C : {R(-1)}, d : {RHalf},
   Q : {<<<<R(1), R(0)>>, <<R(0), R(1)>>>>,
        <<<<R(0), R(-1)>>, <<R(1), R(0)>>>>},
   U : {<<<<R(1)>>>>}]

\* the views self.Fx = self.F[:,:ndx], self.Fu = self.F[:,-nu:] (one row)
\* and self.Lx = self.g[:ndx], self.Lu = self.g[ndx:]
DataFx(m, dat) == SubSeq(dat.F[1], 1, m.ndx)
DataFu(m, dat) == SubSeq(dat.F[1], m.ndx + 1, m.ndx + m.nu)
DataLx(m, dat) == SubSeq(dat.g, 1, m.ndx)
DataLu(m, dat) == SubSeq(dat.g, m.ndx + 1, m.ndx + m.nu)

\* DifferentialActionDataLQR.__init__ : Fx = [B A], Fu = C are written into
\* F; Lxx, Lxu, Luu are rebound to new arrays, L stays zero
DifferentialActionDataLQR(m) ==
  [cost |-> "nan",
   xout |-> HZeros(m.nout),
   F    |-> <<<<H(m.B), H(m.A), H(m.C)>>>>,
   g    |-> HZeros(m.ndx + m.nu),
   L    |-> HZeroMat(m.ndx + m.nu, m.ndx + m.nu),
   Lxx  |-> HPlusTranspose(HMat(m.Q)),
   Lxu  |-> HZeroMat(m.ndx, m.nu),
   Luu  |-> HPlusTranspose(HMat(m.U))]

\* the output with the roles of A and B exchanged
LQR_xout_swapped(m, x, u) ==
  <<HAdd(HAdd(HAdd(HMul(H(m.B), x[2]), HMul(H(m.A), x[1])),
              HMul(H(m.C), u[1])),
         H(m.d))>>

\* np.dot(A, v) + np.dot(B, q) + np.dot(C, u) + d with q = x[:nq], v = x[nq:]
LQR_xout(m, x, u) ==
  <<HAdd(HAdd(HAdd(HMul(H(m.A), x[2]), HMul(H(m.B), x[1])),
              HMul(H(m.C), u[1])),
         H(m.d))>>

\* np.dot(x, np.dot(Q, x)) + np.dot(u, np.dot(U, u))
LQR_cost(m, x, u) ==
  HAdd(HDot(x, HMatVec(HMat(m.Q), x)), HDot(u, HMatVec(HMat(m.U), u)))

\* DifferentialActionModelLQR.calc : the data after the call
LQR_calc(m, dat, x, u) ==
  [dat EXCEPT !.xout = LQR_xout(m, x, u), !.cost = LQR_cost(m, x, u)]

\* data.Lx[:] = np.dot(x.T, data.Lxx) ; data.Lu[:] = np.dot(u.T, data.Luu)
LQR_gradient(dat, x, u) ==
  [dat EXCEPT !.g = HVecMat(x, dat.Lxx) \o HVecMat(u, dat.Luu)]

\* DifferentialActionModelLQR.calcDiff : the data after the call
LQR_calcDiff(m, dat, x, u, recalc) ==
  LQR_gradient(IF recalc THEN LQR_calc(m, dat, x, u) ELSE dat, x, u)

\* the value calc and calcDiff return
Returned(dat) == <<dat.xout, dat.cost>>

(* ------------------------------------------------------------------ *)
(* DifferentialActionModelNumDiff wrapping an LQR model                *)
(* ------------------------------------------------------------------ *)
\* DifferentialActionModelNumDiff.__init__ : the wrapped model has no ncost
\* attribute, so ncost = 1; withGaussApprox = False
NumDiffModels ==
  {[kind |-> "NumDiff", model0 |-> m0, ndx |-> m0.ndx, nu |-> m0.nu,
    nout |-> m0.nout, ncost |-> 1, withGaussApprox |-> FALSE] :
     m0 \in LQRModels}

\* DifferentialActionDataNumDiff.__init__
DifferentialActionDataNumDiff(m) ==
  [data0 |-> DifferentialActionDataLQR(m.model0),
   datax |-> [i \in 1 .. m.ndx |-> DifferentialActionDataLQR(m.model0)],
   datau |-> [i \in 1 .. m.nu |-> DifferentialActionDataLQR(m.model0)],
   g     |-> HZeros(m.ndx + m.nu),
   F     |-> HZeroMat(m.nout, m.ndx + m.nu)]

\* dist(i, n, h) : h at index i, zero elsewhere
Dist(i, n, h) == [ii \in 1 .. n |-> IF ii = i THEN h ELSE HZero]
\* Xint(x, dx) = model.State.integrate(x, dx) of the StateVector
Xint(x, dx) == [i \in 1 .. Len(x) |-> HAdd(x[i], dx[i])]

\* the difference quotient with the baseline and the perturbed value exchanged
FiniteDifference_reversed(vn, v0) == HDivDisturbance(HSub(v0, vn))

\* (xn - xn0)/h and (c - c0)/h
FiniteDifference(vn, v0) == HDivDisturbance(HSub(vn, v0))

\* DifferentialActionModelNumDiff.calc : forwards to model0 on data0
NumDiff_calc(m, dat, x, u) ==
  [dat EXCEPT !.data0 = LQR_calc(m.model0, dat.data0, x, u)]

\* the perturbed evaluations of calcDiff, on datax[ix] and on datau[iu]
NumDiff_datax(m, dat, x, u) ==
  [ix \in 1 .. m.ndx |->
     LQR_calc(m.model0, dat.datax[ix],
              Xint(x, Dist(ix, m.ndx,
                           DifferentialActionModelNumDiff_disturbance)), u)]
NumDiff_datau(m, dat, x, u) ==
  [iu \in 1 .. m.nu |->
     LQR_calc(m.model0, dat.datau[iu], x,
              Xint(u, Dist(iu, m.nu,
                           DifferentialActionModelNumDiff_disturbance)))]

\* Fx, Fu, Lx, Lu assembled from the baseline d0 (xn0, c0 are data0's) and
\* the perturbed data dxs, dus
NumDiff_assemble(m, d0, dxs, dus) ==
  [data0 |-> d0, datax |-> dxs, datau |-> dus,
   F |-> [o \in 1 .. m.nout |->
            [ix \in 1 .. m.ndx |->
               FiniteDifference(dxs[ix].xout[o], d0.xout[o])]
            \o [iu \in 1 .. m.nu |->
                  FiniteDifference(dus[iu].xout[o], d0.xout[o])]],
   g |-> [ix \in 1 .. m.ndx |-> FiniteDifference(dxs[ix].cost, d0.cost)]
         \o [iu \in 1 .. m.nu |-> FiniteDifference(dus[iu].cost, d0.cost)]]

\* DifferentialActionModelNumDiff.calcDiff : the data after the call
NumDiff_calcDiff(m, dat, x, u) ==
  NumDiff_assemble(m, LQR_calc(m.model0, dat.data0, x, u),
                   NumDiff_datax(m, dat, x, u), NumDiff_datau(m, dat, x, u))

(* ------------------------------------------------------------------ *)
(* DifferentialActionModel : free forward dynamics of a 1-DOF body     *)
(* ------------------------------------------------------------------ *)
\* the rigid-body library on one joint: M(q) = inertia and
\* nle(q, v) = gravity*q + damping*v
Pin_M(pm, q) == pm.inertia
Pin_nle(pm, q, v) == RAdd(RMul(pm.gravity, q), RMul(pm.damping, v))
\* pinocchio.aba : the armature is not part of the library's model
Pin_aba(pm, q, v, tauq) == RDiv(RSub(tauq, Pin_nle(pm, q, v)), Pin_M(pm, q))

\* hasattr(model.pinocchio, 'armature')
HasArmature(pm) == "armature" \in DOMAIN pm

PinocchioModels ==
  [inertia : {R(1)}, gravity : {R(1)}, damping : {RHalf}]
  \cup [inertia : {R(1)}, gravity : {R(1)}, damping : {RHalf},
        armature : {R(1)}]

\* DifferentialActionModel.__init__ ; forceAba is an attribute the user sets
DAModels ==
  [kind : {"DAM"}, pinocchio : PinocchioModels, nq : {1}, nv : {1},
   nu : {1}, ndx : {2}, nout : {1}, forceAba : BOOLEAN]

\* CostModelSum.calc of the cost sum created by the constructor (no cost
\* was added to it)
CostModelSum_calc(x, u) == RZero

\* DifferentialActionData.__init__ ; calls lists the library primitives and
\* cost-sum methods invoked by the current call, in order
DifferentialActionData(m) ==
  [cost |-> "nan", xout |-> <<RZero>>, F |-> <<<<RZero, RZero, RZero>>>>,
   M |-> "unset", Minv |-> "unset", calls |-> <<>>]

\* the dynamics part of calc
DAM_dynamics(m, dat, q, v, tauq) ==
  IF m.forceAba
  THEN [dat EXCEPT !.xout = <<Pin_aba(m.pinocchio, q, v, tauq)>>,
                   !.calls = <<"aba">>]
  ELSE [dat EXCEPT
          !.M = IF HasArmature(m.pinocchio)
                THEN RAdd(Pin_M(m.pinocchio, q), m.pinocchio.armature)
                ELSE Pin_M(m.pinocchio, q),
          !.Minv = RDiv(ROne,
                        IF HasArmature(m.pinocchio)
                        THEN RAdd(Pin_M(m.pinocchio, q), m.pinocchio.armature)
                        ELSE Pin_M(m.pinocchio, q)),
          !.xout = <<RMul(RDiv(ROne,
                               IF HasArmature(m.pinocchio)
                               THEN RAdd(Pin_M(m.pinocchio, q),
                                         m.pinocchio.armature)
                               ELSE Pin_M(m.pinocchio, q)),
                          RSub(tauq, Pin_nle(m.pinocchio, q, v)))>>,
          !.calls = <<"computeAllTerms">>]

\* the cost part of calc
DAM_cost(dat, x, u) ==
  [dat EXCEPT !.cost = CostModelSum_calc(x, u),
              !.calls = @ \o <<"forwardKinematics", "updateFramePlacements",
                               "costs.calc">>]

\* DifferentialActionModel.calc : the data after the call
DAM_calc(m, dat, x, u) ==
  DAM_cost(DAM_dynamics(m, dat, x[1], x[2], u[1]), x, u)

\* the rest of calcDiff on the data dat left by the optional calc
DAM_derivatives(m, dat, q, v, tauq) ==
  IF m.forceAba
  THEN [dat EXCEPT
          !.F = <<<<RNeg(RDiv(m.pinocchio.gravity, Pin_M(m.pinocchio, q))),
                    RNeg(RDiv(m.pinocchio.damping, Pin_M(m.pinocchio, q))),
                    RDiv(ROne, Pin_M(m.pinocchio, q))>>>>,
          !.calls = @ \o <<"computeABADerivatives", "computeMinverse",
                           "computeJointJacobians", "updateFramePlacements",
                           "costs.calcDiff(recalc=False)">>]
  ELSE [dat EXCEPT
          !.F = <<<<RNeg(RMul(dat.Minv, m.pinocchio.gravity)),
                    RNeg(RMul(dat.Minv, m.pinocchio.damping)),
                    dat.Minv>>>>,
          !.calls = @ \o <<"computeRNEADerivatives", "computeJointJacobians",
                           "updateFramePlacements",
                           "costs.calcDiff(recalc=False)">>]

\* DifferentialActionModel.calcDiff : the data after the call
DAM_calcDiff(m, dat, x, u, recalc) ==
  DAM_derivatives(m,
                  IF recalc THEN DAM_calc(m, dat, x, u)
                  ELSE [dat EXCEPT !.calls = <<>>],
                  x[1], x[2], u[1])

(* ------------------------------------------------------------------ *)
(* Calls on the differential action models                             *)
(* ------------------------------------------------------------------ *)
\* arguments x = [q, v] and u of the calls
DAMStates == {<<R(q), R(v)>> : q \in Controls, v \in {-1, 1}}
DAMControls == {<<R(0)>>, <<R(1)>>}

\* model = ...Model(...) ; data = model.createData()
DAMInit ==
  /\ model \in LQRModels \cup NumDiffModels \cup DAModels
  /\ data = CASE model.kind = "LQR" -> DifferentialActionDataLQR(model)
              [] model.kind = "NumDiff" -> DifferentialActionDataNumDiff(model)
              [] model.kind = "DAM" -> DifferentialActionData(model)
  /\ call = <<>>

\* recalc=False is used right after a calc at the same x, u
AfterCalcAt(x, u) ==
  call # <<>> /\ call.op = "calc" /\ call.x = x /\ call.u = u

\* DifferentialActionModelLQR.calc(data, x, u)
CallLQRCalc(x, u) ==
  /\ model.kind = "LQR"
  /\ data' = LQR_calc(model, data, HVec(x), HVec(u))
  /\ call' = [op |-> "calc", x |-> x, u |-> u, recalc |-> FALSE,
              ret |-> Returned(data')]
  /\ UNCHANGED model

\* DifferentialActionModelLQR.calcDiff(data, x, u, recalc)
CallLQRCalcDiff(x, u, recalc) ==
  /\ model.kind = "LQR"
  /\ recalc \/ AfterCalcAt(x, u)
  /\ data' = LQR_calcDiff(model, data, HVec(x), HVec(u), recalc)
  /\ call' = [op |-> "calcDiff", x |-> x, u |-> u, recalc |-> recalc,
              ret |-> Returned(data')]
  /\ UNCHANGED model

\* DifferentialActionModelNumDiff.calc(data, x, u)
CallNumDiffCalc(x, u) ==
  /\ model.kind = "NumDiff"
  /\ data' = NumDiff_calc(model, data, HVec(x), HVec(u))
  /\ call' = [op |-> "calc", x |-> x, u |-> u, recalc |-> FALSE,
              ret |-> Returned(data'.data0)]
  /\ UNCHANGED model

\* DifferentialActionModelNumDiff.calcDiff(data, x, u) (returns None)
CallNumDiffCalcDiff(x, u) ==
  /\ model.kind = "NumDiff"
  /\ data' = NumDiff_calcDiff(model, data, HVec(x), HVec(u))
  /\ call' = [op |-> "calcDiff", x |-> x, u |-> u, recalc |-> TRUE,
              ret |-> "None"]
  /\ UNCHANGED model

\* DifferentialActionModel.calc(data, x, u)
CallDAMCalc(x, u) ==
  /\ model.kind = "DAM"
  /\ data' = DAM_calc(model, data, x, u)
  /\ call' = [op |-> "calc", x |-> x, u |-> u, recalc |-> FALSE,
              ret |-> Returned(data')]
  /\ UNCHANGED model

\* DifferentialActionModel.calcDiff(data, x, u, recalc)
CallDAMCalcDiff(x, u, recalc) ==
  /\ model.kind = "DAM"
  /\ recalc \/ AfterCalcAt(x, u)
  /\ data' = DAM_calcDiff(model, data, x, u, recalc)
  /\ call' = [op |-> "calcDiff", x |-> x, u |-> u, recalc |-> recalc,
              ret |-> Returned(data')]
  /\ UNCHANGED model

\* neither the solver nor the state manifold calls are involved
NoState == args = <<>> /\ result = <<>>

InitDAM == DAMInit /\ NoSolver /\ NoState

NextDAM ==
  \/ (\E x \in DAMStates, u \in DAMControls : CallLQRCalc(x, u))
       /\ UNCHANGED <<ddpVars, stateVars>>
  \/ (\E x \in DAMStates, u \in DAMControls, recalc \in BOOLEAN :
        CallLQRCalcDiff(x, u, recalc))
       /\ UNCHANGED <<ddpVars, stateVars>>
  \/ (\E x \in DAMStates, u \in DAMControls : CallNumDiffCalc(x, u))
       /\ UNCHANGED <<ddpVars, stateVars>>
  \/ (\E x \in DAMStates, u \in DAMControls : CallNumDiffCalcDiff(x, u))
       /\ UNCHANGED <<ddpVars, stateVars>>
  \/ (\E x \in DAMStates, u \in DAMControls : CallDAMCalc(x, u))
       /\ UNCHANGED <<ddpVars, stateVars>>
  \/ (\E x \in DAMStates, u \in DAMControls, recalc \in BOOLEAN :
        CallDAMCalcDiff(x, u, recalc))
       /\ UNCHANGED <<ddpVars, stateVars>>

SpecDAM == InitDAM /\ [][NextDAM]_vars

(* ------------------------------------------------------------------ *)
(* Properties of the solver                                            *)
(* ------------------------------------------------------------------ *)
\* a forwardPass call has just returned
ForwardReturned == pc = "ready" /\ outcome # "none"
Running == 0 .. (N - 1)
RLe(p, q) == ~RLt(q, p)

\* C1: when forwardPass accepts the trial, afterwards u[i] = u_new[i] and
\* x[i] = x_new[i] for every running knot i in 0..N-1 and the terminal
\* knot's x equals x_new[N].
C1_AcceptCommitsWholeTrial ==
  (ForwardReturned /\ outcome = "accepted") =>
    /\ \A i \in Running : /\ intervals[i].u = intervals[i].u_new
                          /\ intervals[i].x = intervals[i].x_new
    /\ TerminalX = intervals[N].x_new

\* C2: when forwardPass rejects the trial, the x and u of every running
\* knot and the x of the terminal knot have the values they had before the
\* call.
C2_RejectLeavesNominal ==
  (ForwardReturned /\ outcome = "rejected") => Nominal = before

\* d1 = sum of j^T Qu, d2 = sum of j^T Quu j over the running knots 0..i-1
RECURSIVE D1(_)
D1(i) ==
  IF i = 0 THEN RZero
  ELSE RAdd(D1(i - 1), RMul(intervals[i - 1].j, intervals[i - 1].Qu))
RECURSIVE D2(_)
D2(i) ==
  IF i = 0 THEN RZero
  ELSE RAdd(D2(i - 1),
            RMul(intervals[i - 1].j,
                 RMul(intervals[i - 1].Quu, intervals[i - 1].j)))
\* alpha*d1 + 1/2*alpha^2*d2
ExpectedChange ==
  RAdd(RMul(alpha, D1(N)), RMul(RHalf, RMul(RMul(alpha, alpha), D2(N))))

\* C3 (as claimed): the trial is accepted exactly when
\* change_lb <= z <= change_ub with z = (V - V_new) / (alpha*d1 + 1/2*alpha^2*d2).
C3_AcceptIffInclusive ==
  ForwardReturned =>
    (outcome = "accepted" <=>
       /\ ExpectedChange # RZero
       /\ RLe(change_lb, RDiv(RSub(V, V_new), ExpectedChange))
       /\ RLe(RDiv(RSub(V, V_new), ExpectedChange), change_ub))

\* C3 (amended): the trial is accepted exactly when change_lb < z < change_ub
\* (both strict) with z = (V_new - V) / (alpha*d1 + 1/2*alpha^2*d2); a zero
\* denominator rejects.
C3_AcceptIffStrict ==
  ForwardReturned =>
    (outcome = "accepted" <=>
       /\ ExpectedChange # RZero
       /\ RLt(change_lb, RDiv(RSub(V_new, V), ExpectedChange))
       /\ RLt(RDiv(RSub(V_new, V), ExpectedChange), change_ub))

\* a trial was rejected although its ratio z is a finite number
C3_Witness ==
  ForwardReturned /\ outcome = "rejected" /\ ExpectedChange # RZero

\* C4: whenever forwardPass accepts a trial, V_new < V.
C4_AcceptDecreasesCost ==
  (ForwardReturned /\ outcome = "accepted") => RLt(V_new, V)

\* a trial was accepted under a nonzero regularisation
C4_Witness == ForwardReturned /\ outcome = "accepted" /\ RPos(mu)

\* bounds of the regularisation named by the design (no such constant
\* exists in ConstrainedDDP)
mu_max == R(10 ^ 9)
mu_min == <<1, 10 ^ 9>>
RMax(p, q) == IF RLt(p, q) THEN q ELSE p

C6_MuPolicy ==
  [][(pc = "forward_done" /\ pc' = "ready") =>
       IF outcome' = "accepted"
       THEN mu' = RMax(RMul(mu, RHalf), mu_min)
       ELSE mu' = RMul(R(10), mu)]_vars

\* C7: a rejected forward pass is followed, for the same search direction,
\* by a forward pass with half the step length.
C7_LineSearch ==
  [][(pc = "forward_done" /\ outcome' = "rejected") =>
       (pc' = "backward_done" /\ alpha' = RMul(alpha, RHalf))]_vars

\* linear dynamics with positive-definite quadratic costs, no regularisation
LinearQuadratic ==
  /\ RPos(cost_manager.q) /\ RPos(cost_manager.r) /\ RPos(cost_manager.qf)
  /\ mu = RZero

\* C8: on a linear-quadratic problem the first forward pass (alpha = 1) is
\* accepted and a further backward pass finds Qu = 0 at every running knot.
C8_OneIterationOptimal ==
  LinearQuadratic =>
    /\ (ForwardReturned /\ iter = 1) => outcome = "accepted"
    /\ (pc = "backward_done" /\ iter = 2 /\ outcome = "accepted") =>
         \A i \in Running : intervals[i].Qu = RZero

\* C14: setInitialControl(U) with len(U) # N raises an assertion error
\* before any knot's u or u_new is modified; with len(U) = N it sets
\* u[i] = u_new[i] = U[i] for every running knot i and changes no x, x_new
\* or terminal data.
C14_ControlLengthFailFast ==
  [][\A U \in ControlSequences :
       setInitialControl(U) =>
         IF Len(U) # N
         THEN pc' = "AssertionError" /\ intervals' = intervals
         ELSE /\ pc' = "control_set"
              /\ \A i \in Running :
                   /\ intervals'[i].u = R(U[i + 1])
                   /\ intervals'[i].u_new = R(U[i + 1])
                   /\ intervals'[i].x = intervals[i].x
                   /\ intervals'[i].x_new = intervals[i].x_new
              /\ intervals'[N] = intervals[N]
              /\ terminal_x' = terminal_x]_vars

\* a control sequence of the wrong length was handed over and refused
C14_Witness == pc = "AssertionError"

\* running cost of the trial, accumulated over the knots 0..i-1
RECURSIVE TrialCost(_)
TrialCost(i) ==
  IF i = 0 THEN RZero
  ELSE RAdd(TrialCost(i - 1),
            RMul(computeRunningCost(intervals[i - 1].x_new,
                                    intervals[i - 1].u_new),
                 Dt(i - 1)))

\* C16: after init(), V = sum of dt_i * l(x_i, u_i) + l_T(x_N), and after
\* forwardPass, V_new = sum of dt_i * l(x_new_i, u_new_i) + l_T(x_new_N),
\* where x_N (x_new_N) is the state obtained by integrating knot N-1.
C16_TotalCostAtFinalState ==
  /\ (pc = "ready" /\ iter = 0) =>
       V = RAdd(InitCost(intervals, N),
                computeTerminalCost(Rollout(intervals, N)))
  /\ ForwardReturned =>
       V_new = RAdd(TrialCost(N), computeTerminalCost(intervals[N].x_new))

\* the nominal state of knot i (the terminal knot's x is TerminalX)
NominalX(i) == IF i = N THEN TerminalX ELSE intervals[i].x
\* the gap g_i = diff(xs[i+1], xnext_i) = xnext_i - xs[i+1]
Gap(i) ==
  RSub(Integrate(intervals[i].x, intervals[i].u, Dt(i)), NominalX(i + 1))

\* C17: after init() and after any sequence of compute() calls, every
\* running knot i satisfies x[i+1] = integrate(dynamics, x[i], u[i], dt_i).
C17_NominalFeasible ==
  pc = "ready" => \A i \in Running : Gap(i) = RZero

\* the discretised Jacobians and cost terms of knot i at its nominal x, u
Fx_(i) == DiscreteFx(intervals[i].x, intervals[i].u, Dt(i))
Fu_(i) == DiscreteFu(intervals[i].x, intervals[i].u, Dt(i))
Lterms(i) == computeRunningTerms(intervals[i].x, intervals[i].u)

\* C18: at every running knot i the backward pass computes
\* Qx = Lx + Fx^T (Vx' + Vxx' g_i), Qu = Lu + Fu^T (Vx' + Vxx' g_i),
\* Qxx = Lxx + Fx^T Vxx' Fx, Quu = Luu + Fu^T Vxx' Fu,
\* Qux = Lxu^T + Fu^T Vxx' Fx with Vx', Vxx' of knot i+1 and g_i the gap.
C18_QTermsWithGaps ==
  pc = "backward_done" =>
    \A i \in Running :
      /\ intervals[i].Qx =
           RAdd(RMul(Lterms(i).lx, Dt(i)),
                RMul(Fx_(i), RAdd(intervals[i + 1].Vx,
                                  RMul(intervals[i + 1].Vxx, Gap(i)))))
      /\ intervals[i].Qu =
           RAdd(RMul(Lterms(i).lu, Dt(i)),
                RMul(Fu_(i), RAdd(intervals[i + 1].Vx,
                                  RMul(intervals[i + 1].Vxx, Gap(i)))))
      /\ intervals[i].Qxx =
           RAdd(RMul(Lterms(i).lxx, Dt(i)),
                RMul(Fx_(i), RMul(intervals[i + 1].Vxx, Fx_(i))))
      /\ intervals[i].Quu =
           RAdd(RMul(Lterms(i).luu, Dt(i)),
                RMul(Fu_(i), RMul(intervals[i + 1].Vxx, Fu_(i))))
      /\ intervals[i].Qux =
           RAdd(RMul(Lterms(i).lux, Dt(i)),
                RMul(Fu_(i), RMul(intervals[i + 1].Vxx, Fx_(i))))

\* K, j, Vx, Vxx of knot i as the loop body computes them from the value
\* function held by knot i+1 in the intervals its
KnotValues(q, g) ==
  [K |-> g.K, j |-> g.j, Vx |-> ValueTerms(q, g, alpha).Vx,
   Vxx |-> ValueTerms(q, g, alpha).Vxx]
KnotValuesFrom(q) == KnotValues(q, Gains(q))
ExpectedKnot(its, i) ==
  KnotValuesFrom(
    Regularized(
      QDerivatives(computeRunningTerms(its[i].x, its[i].u), Dt(i),
                   DiscreteFx(its[i].x, its[i].u, Dt(i)),
                   DiscreteFu(its[i].x, its[i].u, Dt(i)),
                   its[i + 1].Vx, its[i + 1].Vxx),
      DiscreteFx(its[i].x, its[i].u, Dt(i)),
      DiscreteFu(its[i].x, its[i].u, Dt(i)),
      mu))
HoldsKnot(its, i) ==
  /\ its[i].K = ExpectedKnot(its, i).K
  /\ its[i].j = ExpectedKnot(its, i).j
  /\ its[i].Vx = ExpectedKnot(its, i).Vx
  /\ its[i].Vxx = ExpectedKnot(its, i).Vxx

\* C19: the backward pass first sets the terminal knot's Vx, Vxx from the
\* terminal cost, then processes the running knots in the order N-1, ..., 0,
\* each knot reading the Vx, Vxx of the next knot written earlier in the
\* pass; when the pass completes every running knot holds K, j, Vx, Vxx
\* computed in that pass.
C19_BackwardSweepOrder ==
  [][/\ (pc = "ready" /\ pc' = "backward") =>
          /\ intervals'[N].Vx = computeTerminalTerms(TerminalX).Vx
          /\ intervals'[N].Vxx = computeTerminalTerms(TerminalX).Vxx
          /\ k' = N - 1
          /\ \A i \in Running : intervals'[i] = intervals[i]
     /\ (pc = "backward" /\ pc' \in {"backward", "backward_done"}) =>
          /\ \/ pc' = "backward" /\ k > 0 /\ k' = k - 1
             \/ pc' = "backward_done" /\ k = 0
          /\ \A i \in (0 .. N) \ {k} : intervals'[i] = intervals[i]
          /\ HoldsKnot(intervals', k)
     /\ (pc = "backward" /\ pc' = "backward_done") =>
          \A i \in Running : HoldsKnot(intervals', i)]_vars

\* a second backward pass completed, over gains left by the first one
C19_Witness ==
  /\ pc = "backward_done"
  /\ iter = 2
  /\ outcome = "accepted"
  /\ \E i \in Running : intervals[i].j # RZero

\* C20: at every running knot j = -Quu_r^-1 Qu and K = -Quu_r^-1 Qux_r with
\* Quu_r = Quu + mu Fu^T Fu and Qux_r = Qux + mu Fu^T Fx, the value update
\* Vx, Vxx uses the unregularised Quu and Qux, and with mu = 0 the
\* regularised and unregularised terms coincide.
C20_GainsFromRegularizedTerms ==
  pc = "backward_done" =>
    \A i \in Running :
      /\ intervals[i].Quu_r =
           RAdd(intervals[i].Quu, RMul(mu, RMul(Fu_(i), Fu_(i))))
      /\ intervals[i].Qux_r =
           RAdd(intervals[i].Qux, RMul(mu, RMul(Fu_(i), Fx_(i))))
      /\ intervals[i].j = RNeg(RDiv(intervals[i].Qu, intervals[i].Quu_r))
      /\ intervals[i].K = RNeg(RDiv(intervals[i].Qux_r, intervals[i].Quu_r))
      /\ intervals[i].Vx =
           RAdd(intervals[i].Qx,
                RAdd(RMul(intervals[i].K,
                          RMul(intervals[i].Quu, intervals[i].j)),
                     RAdd(RMul(intervals[i].K, intervals[i].Qu),
                          RMul(intervals[i].Qux, intervals[i].j))))
      /\ intervals[i].Vxx =
           RAdd(intervals[i].Qxx,
                RAdd(RMul(intervals[i].K,
                          RMul(intervals[i].Quu, intervals[i].K)),
                     RAdd(RMul(intervals[i].K, intervals[i].Qux),
                          RMul(intervals[i].Qux, intervals[i].K))))
      /\ mu = RZero => /\ intervals[i].Quu_r = intervals[i].Quu
                       /\ intervals[i].Qux_r = intervals[i].Qux

\* a backward pass completed under a nonzero regularisation that changes
\* Quu and Qux and yields nonzero gains
C20_Witness ==
  /\ pc = "backward_done"
  /\ RPos(mu)
  /\ \E i \in Running :
       /\ intervals[i].Quu_r # intervals[i].Quu
       /\ intervals[i].Qux_r # intervals[i].Qux
       /\ intervals[i].j # RZero
       /\ intervals[i].K # RZero

\* the trial of running knot i is the claimed one: u_new from the nominal
\* u, the gains and diff(x, x_new) = x_new - x, and x_new of the next knot
\* from the integrator
TrialKnot(its, i) ==
  /\ its[i].u_new =
       RAdd(its[i].u,
            RAdd(RMul(alpha, its[i].j),
                 RMul(its[i].K, RSub(its[i].x_new, its[i].x))))
  /\ its[i + 1].x_new =
       RAdd(its[i].x_new,
            RMul(Dt(i), RAdd(RMul(dynamics.a, its[i].x_new),
                             RMul(dynamics.b, its[i].u_new))))

\* the nominal x, u and the gains of running knot i are the same in both
\* lists of intervals
SameNominalAndGains(its1, its2, i) ==
  /\ its1[i].x = its2[i].x
  /\ its1[i].u = its2[i].u
  /\ its1[i].K = its2[i].K
  /\ its1[i].j = its2[i].j

\* C21: the forward pass starts the trial at the nominal initial state,
\* x_new[0] = x[0]; each step of the rollout sets u_new[k] = u[k] +
\* alpha*j_k + K_k*diff(x[k], x_new[k]) and x_new[k+1] to the integrator's
\* result at (x_new[k], u_new[k]); the steps leave the nominal x, u and the
\* gains of every running knot as they were; when the loop ends the whole
\* trial satisfies these equations.
C21_ForwardRollout ==
  [][/\ (pc = "backward_done" /\ pc' = "forward") =>
          /\ intervals'[0].x_new = intervals[0].x
          /\ \A i \in Running : SameNominalAndGains(intervals', intervals, i)
     /\ pc = "forward" =>
          /\ TrialKnot(intervals', k)
          /\ intervals'[0].x_new = intervals'[0].x
          /\ \A i \in Running : SameNominalAndGains(intervals', intervals, i)
     /\ (pc = "forward" /\ pc' = "forward_done") =>
          \A i \in Running : TrialKnot(intervals', i)]_vars

\* a rollout finished in which the trial left the nominal state at a knot
\* with a nonzero feedback gain
C21_Witness ==
  /\ pc = "forward_done"
  /\ \E i \in Running :
       /\ intervals[i].x_new # intervals[i].x
       /\ intervals[i].K # RZero
       /\ intervals[i].u_new # intervals[i].u

(* ------------------------------------------------------------------ *)
(* Properties of the state manifold                                    *)
(* ------------------------------------------------------------------ *)
\* C9: for StateVector and StateNumDiff, diff(x, integrate(x, dx)) = dx and
\* integrate(x0, diff(x0, x1)) = x1 for all arguments.
C9_DiffIntegrateInverse ==
  /\ (result # <<>> /\ result.op = "diff_integrate") => result.val = args.y
  /\ (result # <<>> /\ result.op = "integrate_diff") => result.val = args.y

\* a round trip was made through the StateNumDiff wrapper from a nonzero x
C9_Witness ==
  /\ result # <<>>
  /\ result.op = "diff_integrate"
  /\ args.cls = "StateNumDiff"
  /\ args.nx = MaxNx
  /\ \E i \in 1 .. args.nx : args.x[i] # RZero /\ args.y[i] # RZero

\* the entries of a matrix are s on the diagonal and 0 elsewhere
IsScaledIdentity(m, n, s) ==
  /\ Len(m) = n
  /\ \A i \in 1 .. n :
       /\ Len(m[i]) = n
       /\ \A c \in 1 .. n : m[i][c] = (IF i = c THEN R(s) ELSE R(0))

\* C10: Jdiff is -I for 'first', +I for 'second' and [-I, +I] for 'both';
\* Jintegrate is I for 'first' and 'second' and [I, I] for 'both'; any other
\* selector fails the assertion; whatever the arguments x, y.
C10_JacobiansPlusMinusIdentity ==
  /\ (result # <<>> /\ result.op = "Jdiff") =>
       CASE args.w = "first"  -> IsScaledIdentity(result.val, args.nx, -1)
         [] args.w = "second" -> IsScaledIdentity(result.val, args.nx, 1)
         [] args.w = "both"   ->
              /\ Len(result.val) = 2
              /\ IsScaledIdentity(result.val[1], args.nx, -1)
              /\ IsScaledIdentity(result.val[2], args.nx, 1)
         [] OTHER -> result.val = "AssertionError"
  /\ (result # <<>> /\ result.op = "Jintegrate") =>
       CASE args.w \in {"first", "second"} ->
              IsScaledIdentity(result.val, args.nx, 1)
         [] args.w = "both" ->
              /\ Len(result.val) = 2
              /\ IsScaledIdentity(result.val[1], args.nx, 1)
              /\ IsScaledIdentity(result.val[2], args.nx, 1)
         [] OTHER -> result.val = "AssertionError"

\* Jdiff was asked for both Jacobians at distinct nonzero arguments
C10_Witness ==
  /\ result # <<>>
  /\ result.op = "Jdiff"
  /\ args.w = "both"
  /\ args.nx = MaxNx
  /\ args.x # args.y

\* C11: for a StateNumDiff wrapping a StateVector, the finite-difference
\* Jdiff(x1, x2, w) and Jintegrate(x, vx, w) equal the wrapped state's
\* analytic Jdiff and Jintegrate for every selector w in {first, second,
\* both} and all arguments.
C11_NumDiffAgreesWithAnalytic ==
  /\ (result # <<>> /\ result.op = "NumDiff.Jdiff" /\ args.w \in Selectors)
       => result.val = StateVector_Jdiff(args.nx, args.x, args.y, args.w)
  /\ (result # <<>> /\ result.op = "NumDiff.Jintegrate"
        /\ args.w \in Selectors)
       => result.val = StateVector_Jintegrate(args.nx, args.x, args.y, args.w)

\* the finite-difference Jdiff was taken in the first argument at distinct
\* nonzero points
C11_Witness ==
  /\ result # <<>>
  /\ result.op = "NumDiff.Jdiff"
  /\ args.w = "first"
  /\ args.nx = MaxNx
  /\ args.x # args.y
  /\ \E i \in 1 .. args.nx : args.x[i] # RZero

(* ------------------------------------------------------------------ *)
(* Properties of the differential action models                        *)
(* ------------------------------------------------------------------ *)
\* a call of the given method has just returned on a model of the given kind
Called(kind, op) == model.kind = kind /\ call # <<>> /\ call.op = op

\* C12: NumDiff.calcDiff sets column i of Fx to
\* (calc(integrate(x, h*e_i), u).xout - calc(x, u).xout)/h and column j of
\* Fu to (calc(x, u + h*e_j).xout - calc(x, u).xout)/h, data0 keeps the
\* baseline output, and for the LQR model Fx = [B A] and Fu = C.
C12_NumDiffJacobians ==
  Called("NumDiff", "calcDiff") =>
    /\ \A i \in 1 .. model.ndx :
         DataFx(model, data)[i] =
           HDivDisturbance(
             HSub(LQR_xout(model.model0,
                           Xint(HVec(call.x),
                                Dist(i, model.ndx,
                                     DifferentialActionModelNumDiff_disturbance)),
                           HVec(call.u))[1],
                  LQR_xout(model.model0, HVec(call.x), HVec(call.u))[1]))
    /\ \A j \in 1 .. model.nu :
         DataFu(model, data)[j] =
           HDivDisturbance(
             HSub(LQR_xout(model.model0, HVec(call.x),
                           Xint(HVec(call.u),
                                Dist(j, model.nu,
                                     DifferentialActionModelNumDiff_disturbance)))[1],
                  LQR_xout(model.model0, HVec(call.x), HVec(call.u))[1]))
    /\ data.data0.xout = LQR_xout(model.model0, HVec(call.x), HVec(call.u))
    /\ DataFx(model, data) = <<H(model.model0.B), H(model.model0.A)>>
    /\ DataFu(model, data) = <<H(model.model0.C)>>

\* the shim differentiated an LQR model with A # B at a nonzero state
C12_Witness ==
  /\ Called("NumDiff", "calcDiff")
  /\ model.model0.A # model.model0.B
  /\ call.x[1] # RZero
  /\ call.u[1] # RZero

\* C13: the LQR model computes xout = A v + B q + C u + d for x = [q, v],
\* and its data's Fx = [B A], Fu = C are unchanged by any sequence of calc
\* and calcDiff calls.
C13_LQRDynamicsAndConstantJacobians ==
  model.kind = "LQR" =>
    /\ DataFx(model, data) = <<H(model.B), H(model.A)>>
    /\ DataFu(model, data) = <<H(model.C)>>
    /\ call # <<>> =>
         data.xout =
           <<H(RAdd(RAdd(RAdd(RMul(model.A, call.x[2]),
                              RMul(model.B, call.x[1])),
                         RMul(model.C, call.u[1])),
                    model.d))>>

\* calcDiff was called without recalc, after a calc, on a model with A # B
\* at a state with q # v
C13_Witness ==
  /\ Called("LQR", "calcDiff")
  /\ ~call.recalc
  /\ model.A # model.B
  /\ call.x[1] # call.x[2]
  /\ call.u[1] # RZero

\* C15: when forceAba is set on a DifferentialActionModel whose robot model
\* carries an armature, calc fails with a precondition error.
C15_AbaWithArmatureReported ==
  (Called("DAM", "calc") /\ model.forceAba /\ HasArmature(model.pinocchio))
    => call.ret = "PreconditionError"

\* the positions of name in the call log cs
Positions(cs, name) == {i \in 1 .. Len(cs) : cs[i] = name}
\* name was invoked exactly once
Once(cs, name) == Cardinality(Positions(cs, name)) = 1
\* every invocation of first precedes every invocation of second
Precedes(cs, first, second) ==
  \A i \in Positions(cs, first), j \in Positions(cs, second) : i < j

\* what calc owes the cost sum: forwardKinematics and updateFramePlacements
\* once each, before the one evaluation of the cost sum
FreshCalc(cs) ==
  /\ Once(cs, "forwardKinematics")
  /\ Once(cs, "updateFramePlacements")
  /\ Once(cs, "costs.calc")
  /\ Precedes(cs, "forwardKinematics", "costs.calc")
  /\ Precedes(cs, "updateFramePlacements", "costs.calc")

\* what calcDiff owes the cost sum: computeJointJacobians and
\* updateFramePlacements once each, before the one call of the cost sum's
\* calcDiff, which is made with recalc=False
FreshCalcDiff(cs) ==
  /\ Once(cs, "computeJointJacobians")
  /\ Once(cs, "updateFramePlacements")
  /\ Once(cs, "costs.calcDiff(recalc=False)")
  /\ Precedes(cs, "computeJointJacobians", "costs.calcDiff(recalc=False)")
  /\ Precedes(cs, "updateFramePlacements", "costs.calcDiff(recalc=False)")

\* C22: in every calc of the free-forward-dynamics model forwardKinematics
\* and updateFramePlacements are invoked before the cost sum's calc, in
\* every calcDiff computeJointJacobians and updateFramePlacements are
\* invoked before the cost sum's calcDiff, which is called with
\* recalc=False, and each primitive is invoked once per call, also in a
\* calcDiff with recalc=True that runs calc first.
C22_KinematicFreshness ==
  /\ Called("DAM", "calc") => FreshCalc(data.calls)
  /\ Called("DAM", "calcDiff") =>
       /\ FreshCalcDiff(data.calls)
       /\ call.recalc =>
            /\ Once(data.calls, "forwardKinematics")
            /\ Once(data.calls, "costs.calc")
            /\ Precedes(data.calls, "forwardKinematics", "costs.calc")

\* the block m[r1:r2, c1:c2] of a matrix (1-based, inclusive)
Block(m, r1, r2, c1, c2) ==
  [i \in 1 .. (r2 - r1 + 1) |->
     [j \in 1 .. (c2 - c1 + 1) |-> m[r1 + i - 1][c1 + j - 1]]]

\* the blocks of the big matrix L of the LQR data
BigLxx(m, dat) == Block(dat.L, 1, m.ndx, 1, m.ndx)
BigLxu(m, dat) == Block(dat.L, 1, m.ndx, m.ndx + 1, m.ndx + m.nu)
BigLuu(m, dat) == Block(dat.L, m.ndx + 1, m.ndx + m.nu,
                        m.ndx + 1, m.ndx + m.nu)

\* Q + Q^T of a matrix of rationals, entry by entry
Symmetrized(q) ==
  [i \in 1 .. Len(q) |-> [j \in 1 .. Len(q) |-> H(RAdd(q[i][j], q[j][i]))]]

\* the first-class Hessian buffers hold Q + Q^T, 0 and U + U^T
HessianBuffers(m, dat) ==
  /\ dat.Lxx = Symmetrized(m.Q)
  /\ dat.Lxu = [i \in 1 .. m.ndx |-> [j \in 1 .. m.nu |-> HZero]]
  /\ dat.Luu = Symmetrized(m.U)

\* g = [Lx; Lu] holds the gradient (Q + Q^T) x, (U + U^T) u
GradientWritten(m, dat, x, u) ==
  /\ DataLx(m, dat) = HMatVec(Symmetrized(m.Q), HVec(x))
  /\ DataLu(m, dat) = HMatVec(Symmetrized(m.U), HVec(u))

\* C23: in the LQR data, after construction and after any sequence of calc
\* and calcDiff calls, the blocks of the big matrix L equal the Hessian
\* buffers, L[:ndx,:ndx] = Lxx = Q + Q^T, L[:ndx,ndx:] = Lxu = 0 and
\* L[ndx:,ndx:] = Luu = U + U^T, and after a calcDiff g = [Lx; Lu] holds
\* Lx = (Q + Q^T) x and Lu = (U + U^T) u.
C23_BigLConsistent ==
  model.kind = "LQR" =>
    /\ HessianBuffers(model, data)
    /\ BigLxx(model, data) = data.Lxx
    /\ BigLxu(model, data) = data.Lxu
    /\ BigLuu(model, data) = data.Luu
    /\ Called("LQR", "calcDiff") =>
         GradientWritten(model, data, call.x, call.u)

====
